---- MODULE Spec2Model ----
(***************************************************************************)
(* GeNNModel (pygenn/genn_model.py): the registries of populations, the    *)
(* build / load lifecycle flags and the guarded device-facing operations.  *)
(*                                                                         *)
(* One action per public method.  Every action records the call it models  *)
(* in lastCall: the method, the flags before the call, the exception it   *)
(* raised (or "ok"), the value it returned, the calls it made into the     *)
(* native model / backend / runtime (in order, with the arguments it       *)
(* passed) and the warnings it emitted; for build(), also whether the call *)
(* directly followed a build() that got past the built guard and raised;   *)
(* for the add_* methods, also the name to register.                       *)
(*                                                                         *)
(* The native base class ModelSpecInternal, the runtime SharedLibraryModel *)
(* and the backend modules are not part of genn_model.py.  Their calls     *)
(* either succeed or raise; which one is an input of the action.  The      *)
(* attributes the code reads from the base class (model_name,              *)
(* recording_in_use, finalize) are taken to exist.                         *)
(*                                                                         *)
(* Spec starts from a constructed model on a host where every backend      *)
(* imports and runs the registration, lifecycle and device methods.        *)
(* BackendSpec starts from the imported module, on every host (every set   *)
(* of backends that import), and runs the constructor, the backend_name    *)
(* setter, build(), load() and one registration, one device call and       *)
(* end().  HelperSpec calls the module's create_custom_*_class helper      *)
(* functions, which touch no model.                                        *)
(***************************************************************************)
EXTENDS Integers, Sequences, FiniteSets, TLC

\* ------------------------------------------------------------------ bounds

\* population names the callers use: for neuron populations, and for the
\* device-facing calls
Names == {"a", "b"}

\* names the callers register the other three kinds under
GroupNames == {"a"}

\* most populations the native model accepts over one run of the model
MaxPops == 3

\* most step_time() calls that reach the runtime
MaxSteps == 2

\* largest num_recording_timesteps a caller passes
MaxRecSteps == 1

\* ------------------------------------------------------------- vocabulary

Kinds == {"neuron", "synapse", "current_source", "custom_update"}

\* num_recording_timesteps=None, size=None
None == 0 - 1

\* an argument that is a name (a Python string)
Str(s) == [tag |-> "str", name |-> s, gen |-> 0, owner |-> "none"]

\* an argument that is a NeuronGroup object: the gen-th neuron group that
\* the native model `owner` created, registered under `name`
Grp(n, g, o) == [tag |-> "NeuronGroup", name |-> n, gen |-> g, owner |-> o]

\* an argument that is neither a string nor a NeuronGroup
Other == [tag |-> "int", name |-> "", gen |-> 0, owner |-> "none"]

\* the absent source / target of a group that has none
NoGrp == [tag |-> "none", name |-> "", gen |-> 0, owner |-> "none"]

\* a NeuronGroup that was created by a different GeNNModel
Foreign == Grp("a", 1, "other")

\* one call into the native model, the backend or the runtime
Call(f, x, y, k) == [fn |-> f, a1 |-> x, a2 |-> y, n |-> k]

\* the outcome of a method
Ok == [type |-> "ok", msg |-> "", ctx |-> "", name |-> ""]
Raise(t, m) == [type |-> t, msg |-> m, ctx |-> "", name |-> ""]
RaiseFor(t, m, c, n) == [type |-> t, msg |-> m, ctx |-> c, name |-> n]

AlreadyBuilt == Raise("Exception", "GeNN model already built")
AlreadyLoaded == Raise("Exception", "GeNN model already loaded")

\* backend=None, time_precision=None
Unset == "None"

\* "for b in [...]": the backends in the order the module tries to import them
BackendOrder == <<"cuda", "single_threaded_cpu", "opencl">>

\* the module import_module returns for the backend b
Module(b) == [backend |-> b]

\* the backend module of an object whose constructor has not set one
NoModule == Module("")

\* an import loop that tries the backends in the opposite order
ImportLoop_Reversed(importable) ==
    SelectSeq(<<"opencl", "single_threaded_cpu", "cuda">>,
              LAMBDA b : b \in importable)

\* the import loop: the keys of backend_modules, in insertion order, on a
\* host where the backends of the set importable import
ImportLoop(importable) == SelectSeq(BackendOrder, LAMBDA b : b \in importable)

\* the keys of an ordered dict given as the sequence of its keys
Keys(od) == {od[i] : i \in 1..Len(od)}

\* ------------------------------------------------------------------ state

VARIABLES
    built,               \* self._built
    loaded,              \* self._loaded
    neuron_populations,  \* self.neuron_populations: name -> group
    synapse_populations, \* self.synapse_populations
    current_sources,     \* self.current_sources
    custom_updates,      \* self.custom_updates
    native,              \* names the native model holds, per kind
    recording_in_use,    \* ModelSpecInternal.recording_in_use
    timestep,            \* the runtime's timestep counter
    opened,              \* the runtime has opened the compiled artifact
    backend_modules,     \* the module's backend_modules: its keys, in order
    _backend_name,       \* self._backend_name
    _backend_module,     \* self._backend_module
    _time_precision,     \* self._time_precision
    scalar,              \* what self.genn_types["scalar"] points at
    _preferences,        \* self._preferences: option name -> value
    constructed,         \* GeNNModel() has returned the object
    lastCall             \* the last method call and what it did

vars == <<built, loaded, neuron_populations, synapse_populations,
          current_sources, custom_updates, native, recording_in_use,
          timestep, opened, backend_modules, _backend_name, _backend_module,
          _time_precision, scalar, _preferences, constructed, lastCall>>

regs == <<neuron_populations, synapse_populations, current_sources,
          custom_updates>>

flags == <<built, loaded>>

\* what the constructor and the backend_name setter decide
cfg == <<backend_modules, _backend_name, _backend_module, _time_precision,
         scalar, _preferences, constructed>>

\* an empty dict
EmptyDict == [n \in {} |-> NoGrp]

\* d[k] = v on a dict
Store(d, k, v) == [n \in (DOMAIN d) \cup {k} |-> IF n = k THEN v ELSE d[n]]

\* the record of a call
Done(op, res, ret, calls, warned) ==
    [op |-> op, preBuilt |-> built, preLoaded |-> loaded,
     result |-> res, ret |-> ret, calls |-> calls, warned |-> warned,
     retry |-> FALSE, name |-> "", count |-> None]

\* ----------------------------------------------------------- construction

\* GeNNModel() without preference_kwargs
NoPreferences == [f \in {} |-> TRUE]

\* the preference_kwargs the callers pass: every option set to True
PrefKwargs ==
    {[f \in S |-> TRUE] : S \in SUBSET {"debugCode", "showPtxInfo"}}

\* the backends that import on the host of the registry and lifecycle runs
HostBackends == {"cuda", "single_threaded_cpu", "opencl"}

\* the precisions and the backend identifiers the callers pass
Precisions == {"float", "double", "half"}
BackendArgs == {Unset, "cuda", "single_threaded_cpu", "opencl", "vulkan"}

\* a setter that, with no backend imported, leaves the backend unset
\* without raising
SetBackend_NoCheck(mods, isBuilt, name, module, arg, optimised) ==
    LET out(r, n, m) == [res |-> r, name |-> n, module |-> m]
    IN  IF isBuilt THEN out(AlreadyBuilt, name, module)
        ELSE IF arg = Unset
        THEN IF Len(mods) = 0 THEN out(Ok, name, module)
             ELSE out(Ok, Head(mods), Module(Head(mods)))
        ELSE IF arg \in Keys(mods)
        THEN out(Ok, arg, Module(arg))
        ELSE out(RaiseFor("KeyError", "", "backend_name", arg), arg, module)

\* a setter that takes an unknown identifier as no identifier
SetBackend_Fallback(mods, isBuilt, name, module, arg, optimised) ==
    LET out(r, n, m) == [res |-> r, name |-> n, module |-> m]
    IN  IF isBuilt THEN out(AlreadyBuilt, name, module)
        ELSE IF arg = Unset \/ arg \notin Keys(mods)
        THEN IF Len(mods) = 0
             THEN out(IF optimised THEN Raise("StopIteration", "")
                      ELSE Raise("AssertionError", ""), name, module)
             ELSE out(Ok, Head(mods), Module(Head(mods)))
        ELSE out(Ok, arg, Module(arg))

\* a setter without the built guard
SetBackend_Unguarded(mods, isBuilt, name, module, arg, optimised) ==
    LET out(r, n, m) == [res |-> r, name |-> n, module |-> m]
    IN  IF arg = Unset
        THEN IF Len(mods) = 0
             THEN out(IF optimised THEN Raise("StopIteration", "")
                      ELSE Raise("AssertionError", ""), name, module)
             ELSE out(Ok, Head(mods), Module(Head(mods)))
        ELSE IF arg \in Keys(mods)
        THEN out(Ok, arg, Module(arg))
        ELSE out(RaiseFor("KeyError", "", "backend_name", arg), arg, module)

\* the backend_name setter on an object whose flag _built is isBuilt, whose
\* name and module are name and module, with the dict keys mods: the outcome
\* and the name and module it leaves.  Python run with -O (optimised) drops
\* the assert, and next() of the empty iterator raises instead.
SetBackend(mods, isBuilt, name, module, arg, optimised) ==
    LET out(r, n, m) == [res |-> r, name |-> n, module |-> m]
    IN  IF isBuilt THEN out(AlreadyBuilt, name, module)
        ELSE IF arg = Unset
        THEN IF Len(mods) = 0
             THEN out(IF optimised THEN Raise("StopIteration", "")
                      ELSE Raise("AssertionError", ""), name, module)
             ELSE out(Ok, Head(mods), Module(Head(mods)))
        ELSE IF arg \in Keys(mods)
        THEN out(Ok, arg, Module(arg))
        ELSE out(RaiseFor("KeyError", "", "backend_name", arg), arg, module)

\* GeNNModel.__init__: the time precision, the flags, the backend, the
\* dicts, the scalar type
Construct(mods, precision, backend, time_precision, optimised) ==
    LET tp == IF time_precision = Unset THEN precision ELSE time_precision
        sb == SetBackend(mods, FALSE, "", NoModule, backend, optimised)
        out(r, n, m, t, sc) ==
            [res |-> r, ok |-> r = Ok, name |-> n, module |-> m,
             time_precision |-> t, scalar |-> sc]
    IN  IF tp \notin {"float", "double"}
        THEN out(Raise("IndexError", "Replacement index 1 out of range"),
                 "", NoModule, "", "")
        ELSE IF sb.res # Ok
        THEN out(sb.res, "", NoModule, "", "")
        ELSE out(Ok, sb.name, sb.module, tp,
                 IF precision = "float" THEN "float" ELSE "double")

\* GeNNModel(): flags false, the four dicts empty, the first backend the
\* host imports
Init ==
    /\ backend_modules = ImportLoop(HostBackends)
    /\ LET c == Construct(ImportLoop(HostBackends), "float", Unset, Unset,
                          FALSE)
       IN  /\ constructed = c.ok
           /\ _backend_name = c.name
           /\ _backend_module = c.module
           /\ _time_precision = c.time_precision
           /\ scalar = c.scalar
    /\ _preferences = NoPreferences
    /\ built = FALSE
    /\ loaded = FALSE
    /\ neuron_populations = EmptyDict
    /\ synapse_populations = EmptyDict
    /\ current_sources = EmptyDict
    /\ custom_updates = EmptyDict
    /\ native = [k \in Kinds |-> {}]
    /\ recording_in_use = FALSE
    /\ timestep = 0
    /\ opened = FALSE
    /\ lastCall = Done("__init__", Ok, {}, <<>>, 0)

\* ------------------------------------------------------------ native model

\* populations the native model holds
NativeCount == Cardinality(native["neuron"]) + Cardinality(native["synapse"])
               + Cardinality(native["current_source"])
               + Cardinality(native["custom_update"])

\* ModelSpecInternal.add_*: refuses a name its registry of that kind holds
NativeAdd(kind, name) ==
    IF name \in native[kind]
    THEN RaiseFor("NativeError", "duplicate name", kind, name)
    ELSE Ok

\* ModelSpecInternal.add_custom_update: refuses a custom update whose group
\* or whose variable reference names a population the model does not hold
NativeAddCustomUpdate(name, group_name, var_ref) ==
    IF group_name \notin native["neuron"]
    THEN RaiseFor("NotFoundError", "population not found", "group", group_name)
    ELSE IF var_ref \notin native["neuron"]
    THEN RaiseFor("NotFoundError", "population not found", "var_ref", var_ref)
    ELSE NativeAdd("custom_update", name)

\* the object the native model creates for kind / name
NativeGroup(kind, name, src, trg) ==
    [kind |-> kind, name |-> name, gen |-> Cardinality(native[kind]) + 1,
     owner |-> "self", model |-> "unset", src |-> src, trg |-> trg]

\* ---------------------------------------------------------- registration

\* _validate_neuron_group without the membership test: a name that is not a
\* key of the dict passes
_validate_neuron_group_NoLookup(group, context) ==
    IF group.tag \in {"str", "NeuronGroup"}
    THEN [res |-> Ok, grp |-> Grp(group.name, group.gen, group.owner)]
    ELSE [res |-> RaiseFor("ValueError", "must be a NeuronGroup or string",
                           context, ""),
          grp |-> NoGrp]

\* GeNNModel._validate_neuron_group
_validate_neuron_group(group, context) ==
    IF group.tag = "str"
    THEN IF group.name \in DOMAIN neuron_populations
         THEN [res |-> Ok,
               grp |-> LET g == neuron_populations[group.name]
                       IN  Grp(g.name, g.gen, g.owner)]
         ELSE [res |-> RaiseFor("ValueError", "neuron group not found",
                                context, group.name),
               grp |-> NoGrp]
    ELSE IF group.tag = "NeuronGroup"
    THEN [res |-> Ok, grp |-> group]
    ELSE [res |-> RaiseFor("ValueError", "must be a NeuronGroup or string",
                           context, ""),
          grp |-> NoGrp]

\* the store in the dict without the back-reference
Register_NoBackref(dict, name, group) == Store(dict, name, group)

\* n_group._model = proxy(self); self.neuron_populations[pop_name] = n_group
Register(dict, name, group) == Store(dict, name, [group EXCEPT !.model = "self"])

\* what a caller passes as source, target or pop: a name, a NeuronGroup
\* object, something else.  A NeuronGroup object is returned as it is,
\* whichever model made it; one of this model gives the group its name gives.
GroupArgs == {Str(n) : n \in Names} \cup {Foreign, Other}

\* the body shared by the four add_* methods once their arguments are
\* validated: the built guard, the native add, the back-reference, the store
\* in the dict of the kind and the return of the group
AddGroup(op, kind, name, guard, v, src, trg, nat) ==
    LET call == Call(op, name, "", None)
        g == NativeGroup(kind, name, src, trg)
        dict == CASE kind = "neuron" -> neuron_populations
                  [] kind = "synapse" -> synapse_populations
                  [] kind = "current_source" -> current_sources
                  [] OTHER -> custom_updates
        refused == guard \/ v.type # "ok" \/ nat.type # "ok"
        new == IF refused THEN dict ELSE Register(dict, name, g)
    IN  /\ constructed
        /\ UNCHANGED <<flags, recording_in_use, timestep, opened, cfg>>
        /\ refused \/ name \in native[kind] \/ NativeCount < MaxPops
        /\ native' = IF refused THEN native
                     ELSE [native EXCEPT ![kind] = @ \cup {name}]
        /\ neuron_populations' =
               IF kind = "neuron" THEN new ELSE neuron_populations
        /\ synapse_populations' =
               IF kind = "synapse" THEN new ELSE synapse_populations
        /\ current_sources' =
               IF kind = "current_source" THEN new ELSE current_sources
        /\ custom_updates' =
               IF kind = "custom_update" THEN new ELSE custom_updates
        /\ lastCall' =
               [IF guard THEN Done(op, AlreadyBuilt, {}, <<>>, 0)
                ELSE IF v.type # "ok" THEN Done(op, v, {}, <<>>, 0)
                ELSE IF nat.type # "ok" THEN Done(op, nat, {}, <<call>>, 0)
                ELSE Done(op, Ok, {new[name]}, <<call>>, 0)
                EXCEPT !.name = name]

\* add_neuron_population that stores the group whatever the native add did
add_neuron_population_Overwrite(pop_name) ==
    AddGroup("add_neuron_population", "neuron", pop_name, built, Ok,
             NoGrp, NoGrp, Ok)

\* GeNNModel.add_neuron_population
add_neuron_population(pop_name) ==
    AddGroup("add_neuron_population", "neuron", pop_name, built, Ok,
             NoGrp, NoGrp, NativeAdd("neuron", pop_name))

\* GeNNModel.add_synapse_population
add_synapse_population(pop_name, source, target) ==
    LET s == _validate_neuron_group(source, "source")
        t == _validate_neuron_group(target, "target")
    IN  AddGroup("add_synapse_population", "synapse", pop_name, built,
                 IF s.res.type # "ok" THEN s.res ELSE t.res, s.grp, t.grp,
                 NativeAdd("synapse", pop_name))

\* add_current_source without the built guard
add_current_source_Unguarded(cs_name, pop) ==
    LET p == _validate_neuron_group(pop, "pop")
    IN  AddGroup("add_current_source", "current_source", cs_name, FALSE,
                 p.res, NoGrp, p.grp,
                 NativeAdd("current_source", cs_name))

\* add_current_source that validates its population as a "target"
add_current_source_WrongContext(cs_name, pop) ==
    LET p == _validate_neuron_group(pop, "target")
    IN  AddGroup("add_current_source", "current_source", cs_name, built,
                 p.res, NoGrp, p.grp,
                 NativeAdd("current_source", cs_name))

\* add_current_source that refuses a name a neuron population has
add_current_source_CrossKind(cs_name, pop) ==
    LET p == _validate_neuron_group(pop, "pop")
    IN  AddGroup("add_current_source", "current_source", cs_name, built,
                 p.res, NoGrp, p.grp,
                 IF cs_name \in DOMAIN neuron_populations
                 THEN RaiseFor("NativeError", "duplicate name",
                               "current_source", cs_name)
                 ELSE NativeAdd("current_source", cs_name))

\* GeNNModel.add_current_source
add_current_source(cs_name, pop) ==
    LET p == _validate_neuron_group(pop, "pop")
    IN  AddGroup("add_current_source", "current_source", cs_name, built,
                 p.res, NoGrp, p.grp,
                 NativeAdd("current_source", cs_name))

\* add_custom_update that stores the group whatever the native add did
add_custom_update_StoreAnyway(cu_name, group_name, var_ref) ==
    AddGroup("add_custom_update", "custom_update", cu_name, built, Ok,
             NoGrp, NoGrp, Ok)

\* GeNNModel.add_custom_update
add_custom_update(cu_name, group_name, var_ref) ==
    AddGroup("add_custom_update", "custom_update", cu_name, built, Ok,
             NoGrp, NoGrp,
             NativeAddCustomUpdate(cu_name, group_name, var_ref))

\* NeuronGroup.spike_recording_enabled = True on a registered group, before
\* the model is built: the description then uses the recording system
enable_spike_recording(pop_name) ==
    /\ constructed
    /\ pop_name \in DOMAIN neuron_populations
    /\ ~built
    /\ ~recording_in_use
    /\ recording_in_use' = TRUE
    /\ lastCall' = Done("spike_recording_enabled", Ok, {}, <<>>, 0)
    /\ UNCHANGED <<flags, regs, native, timestep, opened, cfg>>

\* ------------------------------------------------------------------ build

\* whether the module binds the name genn that build() reads: the imports
\* bind names imported from .genn, never the module itself
GennBound == FALSE

\* the calls build() makes that an input lets raise
BuildFailPoints ==
    {"none", "finalize", "create_backend", "generate_code", "toolchain"}

\* the object the Preferences() of the backend b returns: its fields, each
\* with its default
BackendPreferences(b) ==
    IF b = "cuda"
    THEN [f \in {"debugCode", "showPtxInfo"} |-> FALSE]
    ELSE [f \in {"debugCode"} |-> FALSE]

\* setattr for every option, without the hasattr test
ApplyPreferences_SetAll(preferences, kwargs) ==
    [f \in (DOMAIN preferences) \cup (DOMAIN kwargs) |->
        IF f \in DOMAIN kwargs THEN kwargs[f] ELSE preferences[f]]

\* "for k, v in iteritems(self._preferences): if hasattr(preferences, k):
\* setattr(preferences, k, v)"
ApplyPreferences(preferences, kwargs) ==
    [f \in DOMAIN preferences |->
        IF f \in DOMAIN kwargs THEN kwargs[f] ELSE preferences[f]]

\* the call create_backend(self, output_path, log_level, preferences) on
\* the backend module b
CreateBackend(b, preferences) ==
    [fn |-> "create_backend", a1 |-> b, a2 |-> "", n |-> None,
     prefs |-> preferences]

\* build() that swallows what the code generation line raises
BuildRun_Swallowed(fail, windows) ==
    IF fail = "finalize"
    THEN [res |-> Raise("ExternalError", "finalize"),
          calls |-> <<Call("finalize", "", "", None)>>, built |-> FALSE]
    ELSE [res |-> Ok, calls |-> <<Call("finalize", "", "", None)>>,
          built |-> FALSE]

\* build() that sets the built flag before its steps run
BuildRun_FlagFirst(fail, windows) ==
    [res |-> IF fail = "finalize" THEN Raise("ExternalError", "finalize")
             ELSE Raise("NameError", "genn"),
     calls |-> <<Call("finalize", "", "", None)>>,
     built |-> TRUE]

\* the body of build() after the built guard: finalize, the preferences, the
\* backend, the code generator, the toolchain
BuildRun(fail, windows) ==
    LET c1 == <<Call("finalize", "", "", None)>>
        c2 == c1 \o <<Call("Preferences", _backend_module.backend, "", None),
                      CreateBackend(_backend_module.backend,
                          ApplyPreferences(
                              BackendPreferences(_backend_module.backend),
                              _preferences))>>
        c3 == c2 \o <<Call("generate_code", "", "", None)>>
        c4 == c3 \o <<Call(IF windows THEN "msbuild" ELSE "make", "", "", None)>>
        out(r, c, b) == [res |-> r, calls |-> c, built |-> b]
    IN  IF fail = "finalize" THEN out(Raise("ExternalError", "finalize"), c1, FALSE)
        ELSE IF fail = "create_backend" THEN out(Raise("ExternalError", "create_backend"), c2, FALSE)
        ELSE IF ~GennBound THEN out(Raise("NameError", "genn"), c2, FALSE)
        ELSE IF fail = "generate_code" THEN out(Raise("ExternalError", "generate_code"), c3, FALSE)
        ELSE IF fail = "toolchain" THEN out(Raise("CalledProcessError", "toolchain"), c4, FALSE)
        ELSE out(Ok, c4, TRUE)

\* the value build() returns: what generate_code returned
MemAlloc == [kind |-> "mem_alloc"]

\* the call c was a build() that got past the built guard and raised
FailedBuild(c) == c.op = "build" /\ ~c.preBuilt /\ c.result.type # "ok"

\* GeNNModel.build
build ==
    \E fail \in BuildFailPoints, windows \in BOOLEAN :
        LET run == BuildRun(fail, windows)
        IN  /\ constructed
            /\ UNCHANGED <<loaded, regs, native, recording_in_use, timestep,
                           opened, cfg>>
            /\ IF built
               THEN /\ lastCall' = [Done("build", AlreadyBuilt, {}, <<>>, 0)
                                    EXCEPT !.retry = FailedBuild(lastCall)]
                    /\ UNCHANGED built
               ELSE /\ built' = run.built
                    /\ lastCall' =
                           [Done("build", run.res,
                                 IF run.built THEN {MemAlloc} ELSE {},
                                 run.calls, 0)
                            EXCEPT !.retry = FailedBuild(lastCall)]

\* ------------------------------------------------------------------- load

\* the values of a dict in the order they were inserted: the native model
\* numbers the groups of a kind as it creates them
Values(dict) ==
    LET keys == DOMAIN dict
        before(x) == {y \in keys : dict[y].gen < dict[x].gen}
    IN  [i \in 1..Cardinality(keys) |->
            dict[CHOOSE x \in keys : Cardinality(before(x)) = i - 1]]

\* fn called on every group of a dict, in order, with the argument k
Each(fn, dict, k) ==
    LET v == Values(dict)
    IN  [i \in 1..Len(v) |-> Call(fn, v[i].kind, v[i].name, k)]

\* the per-group loops with the synapse populations walked first
PerGroup_SynapsesFirst(fn, nrt) ==
    Each(fn, synapse_populations, None) \o Each(fn, neuron_populations, nrt)
    \o Each(fn, current_sources, None) \o Each(fn, custom_updates, None)

\* one call per group of the four dicts, in the order load() walks them
PerGroup(fn, nrt) ==
    Each(fn, neuron_populations, nrt) \o Each(fn, synapse_populations, None)
    \o Each(fn, current_sources, None) \o Each(fn, custom_updates, None)

\* the runtime calls load() can make that an input lets raise
LoadFailPoints == {"none", "open", "allocate_mem", "load", "initialize_sparse"}

\* recording in use and num_recording_timesteps is None
NoRecordingCount ==
    Raise("Exception", "Cannot use recording system without passing number of recording timesteps to GeNNModel.load")

\* the body of load() after the loaded guard
LoadRun(nrt, fail) ==
    LET head == <<Call("open", "", "", None), Call("allocate_mem", "", "", None)>>
        noCount == recording_in_use /\ nrt = None
        rec == IF recording_in_use /\ nrt # None
               THEN <<Call("allocate_recording_buffers", "", "", nrt)>>
               ELSE <<>>
        full == IF noCount THEN head
                ELSE head \o rec \o PerGroup("load_init_egps", None)
                     \o <<Call("initialize", "", "", None)>>
                     \o PerGroup("load", nrt)
                     \o <<Call("initialize_sparse", "", "", None)>>
        hits == {i \in 1..Len(full) : full[i].fn = fail}
        at == IF hits = {} THEN 0 ELSE CHOOSE i \in hits : \A j \in hits : i <= j
    IN  IF at # 0
        THEN [res |-> Raise("ExternalError", fail), calls |-> SubSeq(full, 1, at),
              ok |-> FALSE, opened |-> at > 1]
        ELSE IF noCount
        THEN [res |-> NoRecordingCount, calls |-> full, ok |-> FALSE, opened |-> TRUE]
        ELSE [res |-> Ok, calls |-> full, ok |-> TRUE, opened |-> TRUE]

\* load() that also refuses a model that is not built
LoadRefused_NeedsBuilt == loaded \/ ~built

\* load() without its guard
LoadRefused_Never == FALSE

\* "if self._loaded: raise"
LoadRefused == loaded

\* load() that sets the loaded flag and leaves the built flag alone
load_LoadedOnly ==
    \E nrt \in {None} \cup (1..MaxRecSteps), fail \in LoadFailPoints :
        LET run == LoadRun(nrt, fail)
        IN  /\ constructed
            /\ UNCHANGED <<regs, native, recording_in_use, timestep, cfg>>
            /\ IF LoadRefused
               THEN /\ lastCall' = [Done("load", AlreadyLoaded, {}, <<>>, 0)
                                    EXCEPT !.count = nrt]
                    /\ UNCHANGED <<built, loaded, opened>>
               ELSE /\ opened' = (opened \/ run.opened)
                    /\ loaded' = (loaded \/ run.ok)
                    /\ UNCHANGED built
                    /\ lastCall' = [Done("load", run.res, {}, run.calls, 0)
                                    EXCEPT !.count = nrt]

\* load() that takes a missing num_recording_timesteps as 1
load_CountDefaulted ==
    \E nrt \in {None} \cup (1..MaxRecSteps), fail \in LoadFailPoints :
        LET run == LoadRun(IF nrt = None THEN 1 ELSE nrt, fail)
        IN  /\ constructed
            /\ UNCHANGED <<regs, native, recording_in_use, timestep, cfg>>
            /\ IF LoadRefused
               THEN /\ lastCall' = [Done("load", AlreadyLoaded, {}, <<>>, 0)
                                    EXCEPT !.count = nrt]
                    /\ UNCHANGED <<built, loaded, opened>>
               ELSE /\ opened' = (opened \/ run.opened)
                    /\ loaded' = (loaded \/ run.ok)
                    /\ built' = (built \/ run.ok)
                    /\ lastCall' = [Done("load", run.res, {}, run.calls, 0)
                                    EXCEPT !.count = nrt]

\* load() that sizes the recording buffers one step too large
load_CountPlusOne ==
    \E nrt \in {None} \cup (1..MaxRecSteps), fail \in LoadFailPoints :
        LET run == LoadRun(IF nrt = None THEN None ELSE nrt + 1, fail)
        IN  /\ constructed
            /\ UNCHANGED <<regs, native, recording_in_use, timestep, cfg>>
            /\ IF LoadRefused
               THEN /\ lastCall' = [Done("load", AlreadyLoaded, {}, <<>>, 0)
                                    EXCEPT !.count = nrt]
                    /\ UNCHANGED <<built, loaded, opened>>
               ELSE /\ opened' = (opened \/ run.opened)
                    /\ loaded' = (loaded \/ run.ok)
                    /\ built' = (built \/ run.ok)
                    /\ lastCall' = [Done("load", run.res, {}, run.calls, 0)
                                    EXCEPT !.count = nrt]

\* load() that sets the loaded flag before its body runs
load_LoadedFirst ==
    \E nrt \in {None} \cup (1..MaxRecSteps), fail \in LoadFailPoints :
        LET run == LoadRun(nrt, fail)
        IN  /\ constructed
            /\ UNCHANGED <<regs, native, recording_in_use, timestep, cfg>>
            /\ IF LoadRefused
               THEN /\ lastCall' = [Done("load", AlreadyLoaded, {}, <<>>, 0)
                                    EXCEPT !.count = nrt]
                    /\ UNCHANGED <<built, loaded, opened>>
               ELSE /\ opened' = (opened \/ run.opened)
                    /\ loaded' = TRUE
                    /\ built' = (built \/ run.ok)
                    /\ lastCall' = [Done("load", run.res, {}, run.calls, 0)
                                    EXCEPT !.count = nrt]

\* GeNNModel.load
load ==
    \E nrt \in {None} \cup (1..MaxRecSteps), fail \in LoadFailPoints :
        LET run == LoadRun(nrt, fail)
        IN  /\ constructed
            /\ UNCHANGED <<regs, native, recording_in_use, timestep, cfg>>
            /\ IF LoadRefused
               THEN /\ lastCall' = [Done("load", AlreadyLoaded, {}, <<>>, 0)
                                    EXCEPT !.count = nrt]
                    /\ UNCHANGED <<built, loaded, opened>>
               ELSE /\ opened' = (opened \/ run.opened)
                    /\ loaded' = (loaded \/ run.ok)
                    /\ built' = (built \/ run.ok)
                    /\ lastCall' = [Done("load", run.res, {}, run.calls, 0)
                                    EXCEPT !.count = nrt]

\* ------------------------------------------------------- device operations

\* a device-facing method without its loaded guard
Guarded_Unguarded(op, name, aux, size, msg, prim, warned) ==
    /\ constructed
    /\ UNCHANGED <<flags, regs, native, recording_in_use, opened, cfg>>
    /\ lastCall' = Done(op, Ok, {}, <<Call(prim, name, aux, size)>>, warned)

\* "if not self._loaded: raise Exception(msg)", then the runtime primitive
Guarded(op, name, aux, size, msg, prim, warned) ==
    /\ constructed
    /\ UNCHANGED <<flags, regs, native, recording_in_use, opened, cfg>>
    /\ lastCall' = IF ~loaded
                   THEN Done(op, Raise("Exception", msg), {}, <<>>, warned)
                   ELSE Done(op, Ok, {}, <<Call(prim, name, aux, size)>>,
                             warned)

\* GeNNModel.step_time
step_time ==
    /\ loaded => timestep < MaxSteps
    /\ timestep' = IF loaded THEN timestep + 1 ELSE timestep
    /\ Guarded("step_time", "", "", None,
               "GeNN model has to be loaded before stepping", "step_time", 0)

\* GeNNModel.custom_update
custom_update(name) ==
    /\ UNCHANGED timestep
    /\ Guarded("custom_update", name, "", None,
               "GeNN model has to be loaded before performing custom update",
               "custom_update", 0)

\* GeNNModel.pull_connectivity_from_device
pull_connectivity_from_device(pop_name) ==
    /\ UNCHANGED timestep
    /\ Guarded("pull_connectivity_from_device", pop_name, "", None,
               "GeNN model has to be loaded before pulling",
               "pull_connectivity_from_device", 0)

\* GeNNModel.push_spikes_to_device
push_spikes_to_device(pop_name) ==
    /\ UNCHANGED timestep
    /\ Guarded("push_spikes_to_device", pop_name, "", None,
               "GeNN model has to be loaded before pushing",
               "push_spikes_to_device", 0)

\* push_spike_events_to_device that forwards to the spike primitive
push_spike_events_to_device_WrongPrimitive(pop_name) ==
    /\ UNCHANGED timestep
    /\ Guarded("push_spike_events_to_device", pop_name, "", None,
               "GeNN model has to be loaded before pushing",
               "push_spikes_to_device", 0)

\* GeNNModel.push_spike_events_to_device
push_spike_events_to_device(pop_name) ==
    /\ UNCHANGED timestep
    /\ Guarded("push_spike_events_to_device", pop_name, "", None,
               "GeNN model has to be loaded before pushing",
               "push_spike_events_to_device", 0)

\* GeNNModel.push_current_spikes_to_device
push_current_spikes_to_device(pop_name) ==
    /\ UNCHANGED timestep
    /\ Guarded("push_current_spikes_to_device", pop_name, "", None,
               "GeNN model has to be loaded before pushing",
               "push_current_spikes_to_device", 0)

\* GeNNModel.push_current_spike_events_to_device
push_current_spike_events_to_device(pop_name) ==
    /\ UNCHANGED timestep
    /\ Guarded("push_current_spike_events_to_device", pop_name, "", None,
               "GeNN model has to be loaded before pushing",
               "push_current_spike_events_to_device", 0)

\* GeNNModel.push_connectivity_to_device
push_connectivity_to_device(pop_name) ==
    /\ UNCHANGED timestep
    /\ Guarded("push_connectivity_to_device", pop_name, "", None,
               "GeNN model has to be loaded before pushing",
               "push_connectivity_to_device", 0)

\* GeNNModel.push_var_to_device
push_var_to_device(pop_name, var_name) ==
    /\ UNCHANGED timestep
    /\ Guarded("push_var_to_device", pop_name, var_name, None,
               "GeNN model has to be loaded before pushing",
               "push_var_to_device", 0)

\* push_extra_global_param_to_device that warns but forwards the size as
\* it was given
push_extra_global_param_to_device_NoDefault(pop_name, egp_name, size) ==
    /\ UNCHANGED timestep
    /\ Guarded("push_extra_global_param_to_device", pop_name, egp_name,
               size, "GeNN model has to be loaded before pushing",
               "push_extra_global_param", IF size = None THEN 1 ELSE 0)

\* GeNNModel.push_extra_global_param_to_device: size=None warns and becomes
\* 1 before the loaded guard
push_extra_global_param_to_device(pop_name, egp_name, size) ==
    /\ UNCHANGED timestep
    /\ Guarded("push_extra_global_param_to_device", pop_name, egp_name,
               IF size = None THEN 1 ELSE size,
               "GeNN model has to be loaded before pushing",
               "push_extra_global_param", IF size = None THEN 1 ELSE 0)

\* pull_recording_buffers_from_device without the recording_in_use test
pull_recording_buffers_from_device_NoRecCheck ==
    /\ constructed
    /\ UNCHANGED <<flags, regs, native, recording_in_use, opened, timestep,
                   cfg>>
    /\ lastCall' =
           IF ~loaded
           THEN Done("pull_recording_buffers_from_device",
                     Raise("Exception", "GeNN model has to be loaded before pulling recording buffers"),
                     {}, <<>>, 0)
           ELSE Done("pull_recording_buffers_from_device", Ok, {},
                     <<Call("pull_recording_buffers_from_device", "", "", None)>>,
                     0)

\* GeNNModel.pull_recording_buffers_from_device
pull_recording_buffers_from_device ==
    /\ constructed
    /\ UNCHANGED <<flags, regs, native, recording_in_use, opened, timestep,
                   cfg>>
    /\ lastCall' =
           IF ~loaded
           THEN Done("pull_recording_buffers_from_device",
                     Raise("Exception", "GeNN model has to be loaded before pulling recording buffers"),
                     {}, <<>>, 0)
           ELSE IF ~recording_in_use
           THEN Done("pull_recording_buffers_from_device",
                     Raise("Exception", "Cannot pull recording buffer if recording system is not in use"),
                     {}, <<>>, 0)
           ELSE Done("pull_recording_buffers_from_device", Ok, {},
                     <<Call("pull_recording_buffers_from_device", "", "", None)>>,
                     0)

\* --------------------------------------------------------------- teardown

\* whether end() can read the name custom_updates: it is an attribute of
\* self, and neither a local nor a module name
CustomUpdatesBound == FALSE

\* end() that takes the model back to where the constructor left it
end_ResetsFlags ==
    /\ constructed
    /\ built' = FALSE
    /\ loaded' = FALSE
    /\ UNCHANGED <<regs, native, recording_in_use, opened, timestep, cfg>>
    /\ lastCall' = IF CustomUpdatesBound
                   THEN Done("end", Ok, {}, <<>>, 0)
                   ELSE Done("end", Raise("NameError", "custom_updates"), {},
                             <<>>, 0)

\* end() that empties the four dicts
end_ClearsRegistries ==
    /\ constructed
    /\ neuron_populations' = EmptyDict
    /\ synapse_populations' = EmptyDict
    /\ current_sources' = EmptyDict
    /\ custom_updates' = EmptyDict
    /\ UNCHANGED <<flags, native, recording_in_use, opened, timestep, cfg>>
    /\ lastCall' = IF CustomUpdatesBound
                   THEN Done("end", Ok, {}, <<>>, 0)
                   ELSE Done("end", Raise("NameError", "custom_updates"), {},
                             <<>>, 0)

\* GeNNModel.end: the list of the four dicts is built before the loops run
end ==
    /\ constructed
    /\ UNCHANGED <<flags, regs, native, recording_in_use, opened, timestep,
                   cfg>>
    /\ lastCall' = IF CustomUpdatesBound
                   THEN Done("end", Ok, {}, <<>>, 0)
                   ELSE Done("end", Raise("NameError", "custom_updates"), {},
                             <<>>, 0)

\* ------------------------------------------------------ backend selection

\* a setter that also sets the time precision again, from the scalar type
backend_name_RederivesPrecision(arg, optimised) ==
    LET sb == SetBackend(backend_modules, built, _backend_name,
                         _backend_module, arg, optimised)
    IN  /\ constructed
        /\ _backend_name' = sb.name
        /\ _backend_module' = sb.module
        /\ _time_precision' = scalar
        /\ UNCHANGED <<flags, regs, native, recording_in_use, timestep, opened,
                       backend_modules, scalar, _preferences, constructed>>
        /\ lastCall' = [Done("backend_name", sb.res, {}, <<>>, 0)
                        EXCEPT !.name = arg]

\* GeNNModel.backend_name (setter)
backend_name(arg, optimised) ==
    LET sb == SetBackend(backend_modules, built, _backend_name,
                         _backend_module, arg, optimised)
    IN  /\ constructed
        /\ _backend_name' = sb.name
        /\ _backend_module' = sb.module
        /\ UNCHANGED <<flags, regs, native, recording_in_use, timestep, opened,
                       backend_modules, _time_precision, scalar, _preferences,
                       constructed>>
        /\ lastCall' = [Done("backend_name", sb.res, {}, <<>>, 0)
                        EXCEPT !.name = arg]

\* GeNNModel(precision, backend=backend, time_precision=time_precision) on
\* a host whose import loop has run: a constructor that raises returns no
\* object
__init__(precision, backend, time_precision, optimised) ==
    LET c == Construct(backend_modules, precision, backend, time_precision,
                       optimised)
    IN  /\ ~constructed
        /\ lastCall.op = "import"
        /\ constructed' = c.ok
        /\ _backend_name' = c.name
        /\ _backend_module' = c.module
        /\ _time_precision' = c.time_precision
        /\ scalar' = c.scalar
        /\ \E kwargs \in PrefKwargs :
               _preferences' = IF c.ok THEN kwargs ELSE NoPreferences
        /\ UNCHANGED <<flags, regs, native, recording_in_use, timestep, opened,
                       backend_modules>>
        /\ lastCall' = [Done("__init__", c.res, {}, <<>>, 0)
                        EXCEPT !.name = backend]

\* the module has been imported on some host; no model is constructed yet
BackendInit ==
    /\ backend_modules \in {ImportLoop(S) : S \in SUBSET Keys(BackendOrder)}
    /\ constructed = FALSE
    /\ _backend_name = ""
    /\ _backend_module = NoModule
    /\ _time_precision = ""
    /\ scalar = ""
    /\ _preferences = NoPreferences
    /\ built = FALSE
    /\ loaded = FALSE
    /\ neuron_populations = EmptyDict
    /\ synapse_populations = EmptyDict
    /\ current_sources = EmptyDict
    /\ custom_updates = EmptyDict
    /\ native = [k \in Kinds |-> {}]
    /\ recording_in_use = FALSE
    /\ timestep = 0
    /\ opened = FALSE
    /\ lastCall = Done("import", Ok, {}, <<>>, 0)

\* construction, backend selection, the two calls that read or freeze it,
\* and one registration, one device call and end() on the constructed object
BackendNext ==
    \/ \E p \in Precisions, b \in BackendArgs, t \in Precisions \cup {Unset},
          o \in BOOLEAN : __init__(p, b, t, o)
    \/ \E b \in BackendArgs, o \in BOOLEAN : backend_name(b, o)
    \/ \E n \in GroupNames : add_neuron_population(n)
    \/ build
    \/ load
    \/ \E n \in GroupNames : push_spikes_to_device(n)
    \/ end

BackendSpec == BackendInit /\ [][BackendNext]_vars

\* ---------------------------------------------------- custom model classes

\* whether the module binds the name genn_wrapper that the helper functions
\* read: no import or assignment of the module binds it
GennWrapperBound == FALSE

\* whether create_custom_current_source_class and
\* create_custom_custom_update_class can read the name custom_body: it is
\* neither a parameter or local of theirs nor a module name
CustomBodyBound == FALSE

\* the class names the callers pass
ClassNames == {"A", "B"}

\* what a caller passes as custom_body
CustomBodies == {Unset, "dict", "list"}

\* the optional arguments of the three helpers, custom_body apart
CurrentSourceArgs == {"param_names", "var_name_types", "derived_params",
                      "injection_code", "extra_global_params"}
CustomUpdateArgs == {"param_names", "var_name_types", "derived_params",
                     "var_refs", "update_code", "extra_global_params"}
NeuronArgs == {"param_names", "var_name_types", "derived_params", "sim_code",
               "threshold_condition_code", "reset_code", "support_code",
               "extra_global_params", "additional_input_vars",
               "is_auto_refractory_required"}

\* the optional argument a as the helper sees it: given, or None
Arg(given, a) == IF a \in given THEN "given" ELSE Unset

\* the method an argument that is not None puts into the class body
Getter(a) ==
    CASE a = "param_names" -> "get_param_names"
      [] a = "var_name_types" -> "get_vars"
      [] a = "derived_params" -> "get_derived_params"
      [] OTHER -> "get_" \o a

\* the parameters of create_custom_model_class
ModelClassParams ==
    <<"class_name", "base", "param_names", "var_name_types", "derived_params">>

\* what a helper hands back: an exception or the instance
Helped(r, ret) == [res |-> r, ret |-> ret]

\* create_custom_model_class called with the positional arguments args
create_custom_model_class(args) ==
    IF Len(args) # Len(ModelClassParams)
    THEN Helped(Raise("TypeError", "create_custom_model_class() takes 5 positional arguments"), {})
    ELSE Helped(Ok,
                {[class |-> args[1], base |-> args[2],
                  methods |-> {"__init__"} \cup
                      {Getter(ModelClassParams[i]) :
                           i \in {j \in 3..5 : args[j] # Unset}}]})

\* the body dict a helper builds from its code and parameter arguments
Body(given, own) == {Getter(a) : a \in given \cap own}

\* create_custom_current_source_class(class_name, ...) with the optional
\* arguments of the set given
create_custom_current_source_class(class_name, given) ==
    IF ~CustomBodyBound
    THEN Helped(Raise("NameError", "custom_body"), {})
    ELSE IF ~GennWrapperBound
    THEN Helped(Raise("NameError", "genn_wrapper"), {})
    ELSE create_custom_model_class(
             <<class_name, "CurrentSourceModels.Custom",
               Arg(given, "param_names"), Arg(given, "var_name_types"),
               Arg(given, "derived_params"),
               Body(given, {"injection_code", "extra_global_params"})>>)

\* create_custom_custom_update_class(class_name, ...)
create_custom_custom_update_class(class_name, given) ==
    IF ~CustomBodyBound
    THEN Helped(Raise("NameError", "custom_body"), {})
    ELSE IF ~GennWrapperBound
    THEN Helped(Raise("NameError", "genn_wrapper"), {})
    ELSE create_custom_model_class(
             <<class_name, "CustomUpdateModels.Custom",
               Arg(given, "param_names"), Arg(given, "var_name_types"),
               Arg(given, "derived_params"),
               Body(given, {"update_code", "extra_global_params",
                            "var_refs"})>>)

\* create_custom_neuron_class(class_name, ..., custom_body=custom_body)
create_custom_neuron_class(class_name, given, custom_body) ==
    IF custom_body \notin {Unset, "dict"}
    THEN Helped(Raise("ValueError", "custom_body must be an isinstance of dict or None"), {})
    ELSE IF ~GennWrapperBound
    THEN Helped(Raise("NameError", "genn_wrapper"), {})
    ELSE create_custom_model_class(
             <<class_name, "NeuronModels.Custom",
               Arg(given, "param_names"), Arg(given, "var_name_types"),
               Arg(given, "derived_params"),
               Body(given, NeuronArgs \ {"param_names", "var_name_types",
                                         "derived_params"})
                   \cup (IF custom_body = "dict" THEN {"custom"} ELSE {})>>)

\* a call of a helper function of the imported module: no model is touched
HelperCall(op, class_name, given, custom_body, out) ==
    /\ ~constructed
    /\ lastCall.op = "import"
    /\ UNCHANGED <<flags, regs, native, recording_in_use, timestep, opened,
                   cfg>>
    /\ lastCall' = [Done(op, out.res, out.ret, <<>>, 0)
                        EXCEPT !.name = class_name]
                   @@ [args |-> given, custom_body |-> custom_body]

\* a call of create_custom_current_source_class
CurrentSourceClassCall ==
    \E c \in ClassNames, given \in SUBSET CurrentSourceArgs :
        HelperCall("create_custom_current_source_class", c, given, Unset,
                   create_custom_current_source_class(c, given))

\* a call of create_custom_custom_update_class
CustomUpdateClassCall ==
    \E c \in ClassNames, given \in SUBSET CustomUpdateArgs :
        HelperCall("create_custom_custom_update_class", c, given, Unset,
                   create_custom_custom_update_class(c, given))

\* a call of create_custom_neuron_class
NeuronClassCall ==
    \E c \in ClassNames, given \in SUBSET NeuronArgs, b \in CustomBodies :
        HelperCall("create_custom_neuron_class", c, given, b,
                   create_custom_neuron_class(c, given, b))

\* the module has been imported on the host of the registry runs
HelperInit ==
    /\ backend_modules = ImportLoop(HostBackends)
    /\ BackendInit

HelperNext ==
    \/ CurrentSourceClassCall
    \/ CustomUpdateClassCall
    \/ NeuronClassCall

HelperSpec == HelperInit /\ [][HelperNext]_vars

\* ------------------------------------------------------------ the machine

\* variable and extra global parameter names the callers use
VarNames == {"V"}
EgpNames == {"g"}

\* the sizes a caller passes to push_extra_global_param_to_device
Sizes == {None, 1, 2}

Next ==
    \/ \E n \in Names : add_neuron_population(n)
    \/ \E n \in GroupNames, s, t \in GroupArgs : add_synapse_population(n, s, t)
    \/ \E n \in GroupNames, p \in GroupArgs : add_current_source(n, p)
    \/ \E n \in GroupNames, g, r \in Names : add_custom_update(n, g, r)
    \/ \E n \in Names : enable_spike_recording(n)
    \/ build
    \/ load
    \/ step_time
    \/ \E n \in Names : custom_update(n)
    \/ \E n \in Names : pull_connectivity_from_device(n)
    \/ \E n \in Names : push_spikes_to_device(n)
    \/ \E n \in Names : push_spike_events_to_device(n)
    \/ \E n \in Names : push_current_spikes_to_device(n)
    \/ \E n \in Names : push_current_spike_events_to_device(n)
    \/ \E n \in Names : push_connectivity_to_device(n)
    \/ \E n \in Names, v \in VarNames : push_var_to_device(n, v)
    \/ \E n \in Names, e \in EgpNames, z \in Sizes :
           push_extra_global_param_to_device(n, e, z)
    \/ pull_recording_buffers_from_device
    \/ end

Spec == Init /\ [][Next]_vars

\* ----------------------------------------------------------------- claims

AddOps == {"add_neuron_population", "add_synapse_population",
           "add_current_source", "add_custom_update"}

DeviceOps == {"step_time", "custom_update", "pull_connectivity_from_device",
              "push_spikes_to_device", "push_spike_events_to_device",
              "push_current_spikes_to_device",
              "push_current_spike_events_to_device",
              "push_connectivity_to_device", "push_var_to_device",
              "push_extra_global_param_to_device",
              "pull_recording_buffers_from_device"}

\* the messages of the exception a device-facing method raises on a model
\* that is not loaded
NotLoadedMsgs ==
    {"GeNN model has to be loaded before stepping",
     "GeNN model has to be loaded before performing custom update",
     "GeNN model has to be loaded before pulling",
     "GeNN model has to be loaded before pushing",
     "GeNN model has to be loaded before pulling recording buffers"}

\* the argument g is a name that is not a key of neuron_populations
Missing(g) == g.tag = "str" /\ g.name \notin DOMAIN neuron_populations

\* the argument g passes _validate_neuron_group
Valid(g) == g.tag = "NeuronGroup" \/ (g.tag = "str" /\ ~Missing(g))

\* C1: while load() has not succeeded, every device-facing method raises the
\* "has to be loaded" exception and makes no call into the runtime, and the
\* runtime's timestep counter has not moved.
C1_DeviceOpsNeedLoaded ==
    /\ (lastCall.op \in DeviceOps /\ ~lastCall.preLoaded)
           => /\ lastCall.result.type = "Exception"
              /\ lastCall.result.msg \in NotLoadedMsgs
              /\ lastCall.calls = <<>>
    /\ ~loaded => timestep = 0

\* C1: push_var_to_device refused on a model whose load() was tried and failed
C1_Witness ==
    /\ ~loaded
    /\ opened
    /\ lastCall.op = "push_var_to_device"
    /\ lastCall.result.type = "Exception"
    /\ lastCall.calls = <<>>

CleanBuild(c) ==
    /\ c.op = "build"
    /\ ~c.preBuilt
    /\ c.result.type \notin {"ExternalError", "CalledProcessError"}

C4_RetryRefused ==
    (lastCall.op = "build" /\ lastCall.retry)
        => (lastCall.result = AlreadyBuilt /\ lastCall.calls = <<>>)

\* C4 as amended: a failed build() leaves the model not built, and a build()
\* call on a model that is not built, in particular one that directly
\* follows a failed build(), is not refused: it runs finalize again.
C4_RetryRuns ==
    /\ FailedBuild(lastCall) => ~built
    /\ (lastCall.op = "build" /\ (lastCall.retry \/ ~lastCall.preBuilt))
           => /\ lastCall.result # AlreadyBuilt
              /\ Len(lastCall.calls) >= 1
              /\ lastCall.calls[1].fn = "finalize"

\* C4: a build() that directly followed a failed build() and ran finalize
C4_Witness ==
    /\ lastCall.op = "build"
    /\ lastCall.retry
    /\ Len(lastCall.calls) >= 1
    /\ lastCall.calls[1].fn = "finalize"

\* C5: on a built model every add_* call raises "already built" without a
\* call into the native model, and no step changes any of the four dicts.
C5_FrozenOnceBuilt ==
    /\ [](
           (lastCall.op \in AddOps /\ lastCall.preBuilt)
               => /\ lastCall.result = AlreadyBuilt
                  /\ lastCall.calls = <<>>
                  /\ lastCall.ret = {})
    /\ [][built => UNCHANGED regs]_vars

\* C5: add_synapse_population refused on a built model that holds a neuron
\* population
C5_Witness ==
    /\ built
    /\ lastCall.op = "add_synapse_population"
    /\ lastCall.preBuilt
    /\ lastCall.result = AlreadyBuilt
    /\ DOMAIN neuron_populations # {}

\* C6: load() on a loaded model raises "already loaded" and makes no call
\* into the runtime or the populations; the model stays loaded.
C6_SecondLoadRefused ==
    (lastCall.op = "load" /\ lastCall.preLoaded)
        => /\ lastCall.result = AlreadyLoaded
           /\ lastCall.calls = <<>>
           /\ loaded

\* C6: a load() refused on a loaded model
C6_Witness ==
    /\ lastCall.op = "load"
    /\ lastCall.preLoaded
    /\ lastCall.result = AlreadyLoaded

\* C7: add_synapse_population on a model that is not built: a source name
\* that is no key of neuron_populations raises the ValueError of context
\* "source" with that name; with a valid source, such a target name raises
\* the one of context "target"; either way the native add is not called and
\* synapse_populations is unchanged.
C7_SynapseEndsMustExist ==
    [][(lastCall'.op = "add_synapse_population" /\ ~built) =>
         \A n \in GroupNames, s, t \in GroupArgs :
           ((Missing(s) \/ Missing(t)) /\ add_synapse_population(n, s, t))
             => /\ Missing(s) =>
                      lastCall'.result = RaiseFor("ValueError",
                                                  "neuron group not found",
                                                  "source", s.name)
                /\ (Valid(s) /\ Missing(t)) =>
                      lastCall'.result = RaiseFor("ValueError",
                                                  "neuron group not found",
                                                  "target", t.name)
                /\ lastCall'.result.type = "ValueError"
                /\ lastCall'.calls = <<>>
                /\ UNCHANGED <<synapse_populations, native>>]_vars

\* C7: add_synapse_population refused for a target name that is not
\* registered, after its source was found
C7_Witness ==
    /\ lastCall.op = "add_synapse_population"
    /\ lastCall.result = RaiseFor("ValueError", "neuron group not found",
                                  "target", "b")
    /\ "b" \notin DOMAIN neuron_populations
    /\ "a" \in DOMAIN neuron_populations
    /\ lastCall.calls = <<>>

\* C8: add_current_source on a model that is not built, with a population
\* name that is no key of neuron_populations, raises the ValueError of
\* context "pop" with that name, without a call into the native model, and
\* current_sources is unchanged.
C8_CurrentSourcePopMustExist ==
    [][(lastCall'.op = "add_current_source" /\ ~built) =>
         \A n \in GroupNames, p \in GroupArgs :
           (Missing(p) /\ add_current_source(n, p))
             => /\ lastCall'.result = RaiseFor("ValueError",
                                               "neuron group not found",
                                               "pop", p.name)
                /\ lastCall'.calls = <<>>
                /\ UNCHANGED <<current_sources, native>>]_vars

\* C8: add_current_source refused for the unregistered population "b"
C8_Witness ==
    /\ lastCall.op = "add_current_source"
    /\ lastCall.result = RaiseFor("ValueError", "neuron group not found",
                                  "pop", "b")
    /\ "b" \notin DOMAIN neuron_populations
    /\ current_sources = EmptyDict

Kept(d, e) == \A n \in DOMAIN d : n \in DOMAIN e /\ e[n] = d[n]

\* the dict an add_* method stores in
DictOf(op) ==
    CASE op = "add_neuron_population" -> neuron_populations
      [] op = "add_synapse_population" -> synapse_populations
      [] op = "add_current_source" -> current_sources
      [] op = "add_custom_update" -> custom_updates

\* C10: in each of the four kinds, an add_* call under a name that is a key
\* of the dict of that kind raises, returns nothing and leaves the four
\* dicts as they were; and no step replaces or removes an entry of any of
\* the four dicts.
C10_NamesUniquePerKind ==
    [][/\ (lastCall'.op \in AddOps
             /\ lastCall'.name \in DOMAIN DictOf(lastCall'.op))
            => /\ lastCall'.result.type # "ok"
               /\ lastCall'.ret = {}
               /\ UNCHANGED regs
       /\ Kept(neuron_populations, neuron_populations')
       /\ Kept(synapse_populations, synapse_populations')
       /\ Kept(current_sources, current_sources')
       /\ Kept(custom_updates, custom_updates')]_vars

\* C10: a second add_synapse_population under the registered name "a",
\* refused by the native model on valid arguments, the first group still
\* stored
C10_Witness ==
    /\ lastCall.op = "add_synapse_population"
    /\ lastCall.result.type = "NativeError"
    /\ lastCall.result.msg = "duplicate name"
    /\ "a" \in DOMAIN synapse_populations
    /\ synapse_populations["a"].gen = 1

\* the name n is registered with a successful call: the call returned the
\* group now stored under n in the dict d
Registered(d, n) ==
    /\ lastCall'.result = Ok
    /\ n \in DOMAIN d
    /\ lastCall'.ret = {d[n]}

\* C11: on a model that is not built, an add_* call with valid references,
\* under a name that is no key of the dict of its own kind, succeeds whether
\* or not the name is a key of another kind's dict, and leaves the three
\* other dicts as they were.
C11_SameNameAcrossKinds ==
    [][/\ (lastCall'.op = "add_neuron_population" /\ ~built) =>
            \A n \in Names :
              (n \notin DOMAIN neuron_populations /\ add_neuron_population(n))
                => /\ Registered(neuron_populations', n)
                   /\ UNCHANGED <<synapse_populations, current_sources,
                                  custom_updates>>
       /\ (lastCall'.op = "add_synapse_population" /\ ~built) =>
            \A n \in GroupNames, x, y \in GroupArgs :
              (/\ n \notin DOMAIN synapse_populations
               /\ Valid(x) /\ Valid(y)
               /\ add_synapse_population(n, x, y))
                => /\ Registered(synapse_populations', n)
                   /\ UNCHANGED <<neuron_populations, current_sources,
                                  custom_updates>>
       /\ (lastCall'.op = "add_current_source" /\ ~built) =>
            \A n \in GroupNames, x \in GroupArgs :
              (/\ n \notin DOMAIN current_sources
               /\ Valid(x)
               /\ add_current_source(n, x))
                => /\ Registered(current_sources', n)
                   /\ UNCHANGED <<neuron_populations, synapse_populations,
                                  custom_updates>>
       /\ (lastCall'.op = "add_custom_update" /\ ~built) =>
            \A n \in GroupNames, g, r \in Names :
              (/\ n \notin DOMAIN custom_updates
               /\ g \in DOMAIN neuron_populations
               /\ r \in DOMAIN neuron_populations
               /\ add_custom_update(n, g, r))
                => /\ Registered(custom_updates', n)
                   /\ UNCHANGED <<neuron_populations, synapse_populations,
                                  current_sources>>]_vars

\* C11: a current source registered as "a" while a neuron population "a"
\* is registered
C11_Witness ==
    /\ lastCall.op = "add_current_source"
    /\ lastCall.name = "a"
    /\ lastCall.result = Ok
    /\ "a" \in DOMAIN neuron_populations
    /\ "a" \in DOMAIN current_sources
    /\ neuron_populations["a"].kind = "neuron"
    /\ current_sources["a"].kind = "current_source"

\* the indices of the calls to fn among the calls of the last method
CallsTo(fn) == {i \in 1..Len(lastCall.calls) : lastCall.calls[i].fn = fn}

\* C12: load() on a model that is not loaded, whose description uses
\* recording, with no num_recording_timesteps, raises: the "Cannot use
\* recording system" exception unless open or allocate_mem raised first; it
\* never allocates recording buffers and the model is not loaded.
C12_RecordingNeedsCount ==
    (/\ lastCall.op = "load"
     /\ ~lastCall.preLoaded
     /\ recording_in_use
     /\ lastCall.count = None)
        => /\ lastCall.result = NoRecordingCount
              \/ lastCall.result.type = "ExternalError"
           /\ CallsTo("allocate_recording_buffers") = {}
           /\ CallsTo("initialize") = {}
           /\ ~loaded

\* C12: a load() without a count refused after open and allocate_mem
C12_Witness ==
    /\ lastCall.op = "load"
    /\ lastCall.count = None
    /\ recording_in_use
    /\ lastCall.result = NoRecordingCount
    /\ Len(lastCall.calls) = 2
    /\ ~loaded

\* C13: a load() that succeeded allocated the recording buffers exactly
\* once, with the caller's count, when recording is in use, and not at all
\* when it is not, count or no count.
C13_RecordingBuffersOnce ==
    (lastCall.op = "load" /\ lastCall.result = Ok)
        => IF recording_in_use
           THEN /\ lastCall.count # None
                /\ Cardinality(CallsTo("allocate_recording_buffers")) = 1
                /\ \A i \in CallsTo("allocate_recording_buffers") :
                       lastCall.calls[i].n = lastCall.count
           ELSE CallsTo("allocate_recording_buffers") = {}

\* C13: a successful load() with count 1 on a model that uses recording
C13_Witness ==
    /\ lastCall.op = "load"
    /\ lastCall.result = Ok
    /\ recording_in_use
    /\ lastCall.count = 1
    /\ CallsTo("allocate_recording_buffers") # {}

\* C14: on a loaded model push_extra_global_param_to_device succeeds with
\* one call of the runtime: without a size it warns once and passes size 1;
\* with a size s it does not warn and passes s.
C14_EgpSizeDefault ==
    [][(lastCall'.op = "push_extra_global_param_to_device" /\ loaded) =>
         \A n \in Names, e \in EgpNames, z \in Sizes :
           push_extra_global_param_to_device(n, e, z)
             => /\ lastCall'.result = Ok
                /\ Len(lastCall'.calls) = 1
                /\ lastCall'.calls[1].a1 = n
                /\ lastCall'.calls[1].a2 = e
                /\ lastCall'.calls[1].n = (IF z = None THEN 1 ELSE z)
                /\ lastCall'.warned = (IF z = None THEN 1 ELSE 0)]_vars

\* C14: a push without a size on a loaded model: one warning, size 1
C14_Witness ==
    /\ lastCall.op = "push_extra_global_param_to_device"
    /\ lastCall.preLoaded
    /\ lastCall.result = Ok
    /\ lastCall.warned = 1
    /\ lastCall.calls[1].n = 1

\* C15: a build() in which no collaborator raises succeeds; every
\* step_time() on a loaded model succeeds and advances the runtime's
\* timestep by one; no other call moves the timestep.
C15_BuildLoadThenSteps ==
    [][/\ CleanBuild(lastCall') => lastCall'.result = Ok
       /\ (lastCall'.op = "step_time" /\ loaded)
            => (lastCall'.result = Ok /\ timestep' = timestep + 1)
       /\ (lastCall'.op # "step_time" \/ ~loaded)
            => timestep' = timestep]_vars

\* C20: pull_recording_buffers_from_device on a model that is not loaded
\* raises the "has to be loaded" exception, recording or not; on a loaded
\* model that does not use recording it raises "recording system is not in
\* use"; in neither case is the runtime called.
C20_PullRecordingGuards ==
    lastCall.op = "pull_recording_buffers_from_device"
        => /\ ~lastCall.preLoaded
                => /\ lastCall.result = Raise("Exception", "GeNN model has to be loaded before pulling recording buffers")
                   /\ lastCall.calls = <<>>
           /\ (lastCall.preLoaded /\ ~recording_in_use)
                => /\ lastCall.result = Raise("Exception", "Cannot pull recording buffer if recording system is not in use")
                   /\ lastCall.calls = <<>>

\* C20: the pull refused on a loaded model that does not use recording
C20_Witness ==
    /\ lastCall.op = "pull_recording_buffers_from_device"
    /\ lastCall.preLoaded
    /\ ~recording_in_use
    /\ lastCall.result.type = "Exception"
    /\ lastCall.calls = <<>>

\* the time precision the constructor settles on is a supported one
TimePrecisionOk(precision, time_precision) ==
    (IF time_precision = Unset THEN precision ELSE time_precision)
        \in {"float", "double"}

\* b is the first backend, in the order cuda, single_threaded_cpu, opencl,
\* among the keys of backend_modules
FirstImportable(b) ==
    \E i \in 1..Len(BackendOrder) :
        /\ BackendOrder[i] = b
        /\ b \in Keys(backend_modules)
        /\ \A j \in 1..(i - 1) : BackendOrder[j] \notin Keys(backend_modules)

\* the calls of build() into the backend module
BackendCalls(c) ==
    {i \in 1..Len(c.calls) : c.calls[i].fn \in {"Preferences", "create_backend"}}

\* C16: a constructor, or an assignment on a model that is not built, with
\* no backend identifier and some backend imported selects the first
\* imported backend of the order cuda, single_threaded_cpu, opencl, with
\* the module registered under that name; build() calls that module.
C16_FirstImportableBackend ==
    [][/\ lastCall'.op = "__init__" =>
            \A p \in Precisions, t \in Precisions \cup {Unset}, o \in BOOLEAN :
              (/\ Len(backend_modules) > 0
               /\ TimePrecisionOk(p, t)
               /\ __init__(p, Unset, t, o))
                => /\ constructed'
                   /\ FirstImportable(_backend_name')
                   /\ _backend_module' = Module(_backend_name')
       /\ (lastCall'.op = "backend_name" /\ ~built) =>
            \A o \in BOOLEAN :
              (Len(backend_modules) > 0 /\ backend_name(Unset, o))
                => /\ lastCall'.result = Ok
                   /\ FirstImportable(_backend_name')
                   /\ _backend_module' = Module(_backend_name')
       /\ lastCall'.op = "build" =>
            \A i \in BackendCalls(lastCall') :
                lastCall'.calls[i].a1 = _backend_module.backend]_vars

\* C16: a model constructed with no backend identifier on a host where
\* cuda does not import: single_threaded_cpu is selected
C16_Witness ==
    /\ constructed
    /\ lastCall.op = "__init__"
    /\ lastCall.name = Unset
    /\ backend_modules = <<"single_threaded_cpu", "opencl">>
    /\ _backend_name = "single_threaded_cpu"
    /\ _backend_module = Module("single_threaded_cpu")

\* C17: with no backend imported, a constructor with no backend identifier
\* raises (AssertionError, or StopIteration under -O, when the time
\* precision is a supported one) and returns no object; and without an
\* object no method runs: build() never calls the code generator or the
\* toolchain.
C17_NoBackendNoModel ==
    /\ [][lastCall'.op = "__init__" =>
            \A p \in Precisions, t \in Precisions \cup {Unset}, o \in BOOLEAN :
              (Len(backend_modules) = 0 /\ __init__(p, Unset, t, o))
                => /\ lastCall'.result.type # "ok"
                   /\ TimePrecisionOk(p, t) =>
                        lastCall'.result.type
                            \in {"AssertionError", "StopIteration"}
                   /\ ~constructed']_vars
    /\ [](~constructed => /\ lastCall.op \in {"import", "__init__"}
                          /\ lastCall.calls = <<>>
                          /\ ~built)

\* C17: a constructor that raised AssertionError on a host with no backend
C17_Witness ==
    /\ ~constructed
    /\ Len(backend_modules) = 0
    /\ lastCall.op = "__init__"
    /\ lastCall.name = Unset
    /\ lastCall.result.type = "AssertionError"

\* the lookup of the backend identifier b failed
UnknownBackend(b) == RaiseFor("KeyError", "", "backend_name", b)

\* C18: a backend identifier that is no key of backend_modules raises
\* KeyError for that identifier: in the constructor (with a supported time
\* precision), which then returns no object, and in an assignment to
\* backend_name on a model that is not built, which keeps the backend
\* module.
C18_UnknownBackendRefused ==
    [][lastCall'.op \in {"__init__", "backend_name"} =>
         \A b \in BackendArgs \ {Unset} :
           b \notin Keys(backend_modules) =>
             /\ \A p \in Precisions, t \in Precisions \cup {Unset},
                  o \in BOOLEAN :
                  (TimePrecisionOk(p, t) /\ __init__(p, b, t, o))
                    => /\ lastCall'.result = UnknownBackend(b)
                       /\ ~constructed'
             /\ \A o \in BOOLEAN :
                  (~built /\ backend_name(b, o))
                    => /\ lastCall'.result = UnknownBackend(b)
                       /\ _backend_module' = _backend_module]_vars

\* C18: an assignment of the unknown identifier "vulkan" refused on a
\* constructed model
C18_Witness ==
    /\ constructed
    /\ ~built
    /\ lastCall.op = "backend_name"
    /\ lastCall.name = "vulkan"
    /\ lastCall.result = UnknownBackend("vulkan")

\* C19: on a built model every assignment to backend_name raises "already
\* built", and no step changes the backend name or module; on a model that
\* is not built an assignment of an imported backend succeeds and selects
\* that backend and its module.
C19_BackendFrozenOnceBuilt ==
    [][/\ (built /\ lastCall'.op = "backend_name")
            => lastCall'.result = AlreadyBuilt
       /\ built => UNCHANGED <<_backend_name, _backend_module>>
       /\ (~built /\ lastCall'.op = "backend_name") =>
            \A b \in Keys(backend_modules), o \in BOOLEAN :
              backend_name(b, o)
                => /\ lastCall'.result = Ok
                   /\ _backend_name' = b
                   /\ _backend_module' = Module(b)]_vars

\* C19: an assignment refused on a built model
C19_Witness ==
    /\ built
    /\ lastCall.op = "backend_name"
    /\ lastCall.preBuilt
    /\ lastCall.result = AlreadyBuilt
    /\ _backend_module = Module(_backend_name)

\* the calls of the build() call c that run the toolchain
ToolchainCalls(c) ==
    {i \in 1..Len(c.calls) : c.calls[i].fn \in {"make", "msbuild"}}

\* C21: a build() past the built guard that did not get to the toolchain
\* raised, and a build() that raised leaves the model not built; the add_*
\* call that follows a build() that raised is not refused as "already
\* built", and add_neuron_population under a new name succeeds.
C21_FailedBuildStaysUnbuilt ==
    /\ []((lastCall.op = "build" /\ ~lastCall.preBuilt
             /\ ToolchainCalls(lastCall) = {})
            => (lastCall.result.type # "ok" /\ ~built))
    /\ [](FailedBuild(lastCall) => ~built)
    /\ [][(FailedBuild(lastCall) /\ lastCall'.op \in AddOps)
            => /\ lastCall'.result # AlreadyBuilt
               /\ \A n \in Names :
                    (n \notin DOMAIN neuron_populations
                       /\ add_neuron_population(n))
                      => lastCall'.result = Ok]_vars

\* C21: a build() that raised at the code generation line, after finalize
\* and create_backend, on a model that holds a population and is not built
C21_Witness ==
    /\ FailedBuild(lastCall)
    /\ lastCall.result.type = "NameError"
    /\ Len(lastCall.calls) = 3
    /\ ~built
    /\ DOMAIN neuron_populations # {}

\* C22: a build() on a model that is not built, in which finalize, the
\* backend, the code generator and the toolchain do not raise, returns the
\* code generator's memory allocation and the model is built.
C22_CleanBuildSucceeds ==
    CleanBuild(lastCall)
        => /\ lastCall.result = Ok
           /\ lastCall.ret = {MemAlloc}
           /\ built

\* the place of a kind in the order neuron populations, synapse
\* populations, current sources, custom updates
KindRank(k) ==
    CASE k = "neuron" -> 0
      [] k = "synapse" -> 1
      [] k = "current_source" -> 2
      [] k = "custom_update" -> 3

\* the stage of load() a call belongs to
LoadStage(c) ==
    CASE c.fn = "open" -> 1
      [] c.fn = "allocate_mem" -> 2
      [] c.fn = "allocate_recording_buffers" -> 3
      [] c.fn = "load_init_egps" -> 4 + KindRank(c.a1)
      [] c.fn = "initialize" -> 8
      [] c.fn = "load" -> 9 + KindRank(c.a1)
      [] c.fn = "initialize_sparse" -> 13

\* the names of the groups of kind k that the call fn was made on, in the
\* last method call
CalledOn(fn, k) ==
    {lastCall.calls[i].a2 : i \in {j \in CallsTo(fn) : lastCall.calls[j].a1 = k}}

\* in the last method call, fn was called once on every group of the dict
\* d of kind k and on nothing else of that kind
OncePerGroup(fn, k, d) ==
    /\ CalledOn(fn, k) = DOMAIN d
    /\ Cardinality({j \in CallsTo(fn) : lastCall.calls[j].a1 = k})
           = Cardinality(DOMAIN d)

\* C23: the calls of a load() that succeeded: open, allocate_mem, then
\* allocate_recording_buffers if at all, then load_init_egps once on every
\* group, kind by kind (neuron populations, synapse populations, current
\* sources, custom updates), then initialize once, then load once on every
\* group in the same kind order, then initialize_sparse once, last; and the
\* model is loaded.
C23_LoadCallOrder ==
    (lastCall.op = "load" /\ lastCall.result = Ok)
        => LET c == lastCall.calls
           IN  /\ Len(c) >= 4
               /\ c[1].fn = "open"
               /\ c[2].fn = "allocate_mem"
               /\ c[Len(c)].fn = "initialize_sparse"
               /\ \A i \in 1..(Len(c) - 1) :
                      LoadStage(c[i]) <= LoadStage(c[i + 1])
               /\ \A fn \in {"open", "allocate_mem", "initialize",
                             "initialize_sparse"} :
                      Cardinality(CallsTo(fn)) = 1
               /\ Cardinality(CallsTo("allocate_recording_buffers")) <= 1
               /\ \A fn \in {"load_init_egps", "load"} :
                      /\ OncePerGroup(fn, "neuron", neuron_populations)
                      /\ OncePerGroup(fn, "synapse", synapse_populations)
                      /\ OncePerGroup(fn, "current_source", current_sources)
                      /\ OncePerGroup(fn, "custom_update", custom_updates)
               /\ loaded

\* C23: a load() that succeeded on a model that uses recording and holds
\* two neuron populations and a synapse population
C23_Witness ==
    /\ lastCall.op = "load"
    /\ lastCall.result = Ok
    /\ loaded
    /\ recording_in_use
    /\ DOMAIN neuron_populations = {"a", "b"}
    /\ DOMAIN synapse_populations = {"a"}
    /\ Len(lastCall.calls) = 11

\* C24: end() walks the four dicts, calls the runtime's
\* free_extra_global_param once for every extra global parameter that
\* needs allocation and for no other, and returns without raising.
C24_EndFreesAndReturns ==
    lastCall.op = "end"
        => /\ lastCall.result = Ok
           /\ \A i \in 1..Len(lastCall.calls) :
                  lastCall.calls[i].fn = "free_extra_global_param"

\* the calls of the build() call c that create the backend
CreateBackendCalls(c) ==
    {i \in 1..Len(c.calls) : c.calls[i].fn = "create_backend"}

\* C25: the preferences object build() passes to create_backend has the
\* fields of the backend's Preferences() and no other; a field that
\* self._preferences names holds the option's value, every other field its
\* default; and no option makes build() raise: a build() past the built
\* guard whose finalize did not raise gets to create_backend.
C25_PreferencesApplied ==
    lastCall.op = "build"
        => /\ \A i \in CreateBackendCalls(lastCall) :
                LET d == BackendPreferences(lastCall.calls[i].a1)
                    pr == lastCall.calls[i].prefs
                IN  /\ DOMAIN pr = DOMAIN d
                    /\ \A f \in DOMAIN d :
                           pr[f] = IF f \in DOMAIN _preferences
                                   THEN _preferences[f] ELSE d[f]
           /\ (~lastCall.preBuilt
                 /\ lastCall.result # Raise("ExternalError", "finalize"))
                => CreateBackendCalls(lastCall) # {}

\* C25: a build() on the single_threaded_cpu backend, which has no field
\* showPtxInfo, with the options debugCode and showPtxInfo: debugCode is
\* set, showPtxInfo is ignored
C25_Witness ==
    /\ lastCall.op = "build"
    /\ _backend_module = Module("single_threaded_cpu")
    /\ DOMAIN _preferences = {"debugCode", "showPtxInfo"}
    /\ \E i \in CreateBackendCalls(lastCall) :
           lastCall.calls[i].prefs = [f \in {"debugCode"} |-> TRUE]

\* C26: a constructor given a precision, or a time precision, that is not
\* "float" or "double" raises ValueError and returns no object.
C26_UnsupportedPrecisionRefused ==
    [][lastCall'.op = "__init__" =>
         \A p \in Precisions, b \in BackendArgs, t \in Precisions \cup {Unset},
           o \in BOOLEAN :
           (/\ p \notin {"float", "double"}
                 \/ t \notin {"float", "double", Unset}
            /\ __init__(p, b, t, o))
             => /\ lastCall'.result.type = "ValueError"
                /\ ~constructed']_vars

\* C27: a model constructed without time_precision has the time precision
\* "float".
C27_TimePrecisionDefaultsToFloat ==
    [][lastCall'.op = "__init__" =>
         \A p \in Precisions, b \in BackendArgs, o \in BOOLEAN :
           (__init__(p, b, Unset, o) /\ constructed')
             => _time_precision' = "float"]_vars

\* the group g is the neuron population that this model's
\* neuron_populations holds under g's name
InRegistry(g) ==
    /\ g.tag = "NeuronGroup"
    /\ g.owner = "self"
    /\ g.name \in DOMAIN neuron_populations
    /\ neuron_populations[g.name].gen = g.gen

\* C28: the source and the target of every registered synapse population
\* and the target of every registered current source are neuron
\* populations of this model's neuron_populations.
C28_ReferencesInRegistry ==
    /\ \A n \in DOMAIN synapse_populations :
           /\ InRegistry(synapse_populations[n].src)
           /\ InRegistry(synapse_populations[n].trg)
    /\ \A n \in DOMAIN current_sources :
           InRegistry(current_sources[n].trg)

\* C29: a load() that succeeded leaves the model loaded and built; a loaded
\* model is built; build() and the add_* methods called on a loaded model
\* raise "already built" and call nothing.
C29_LoadedIsBuilt ==
    /\ (lastCall.op = "load" /\ lastCall.result = Ok) => (loaded /\ built)
    /\ loaded => built
    /\ (lastCall.op \in AddOps \cup {"build"} /\ lastCall.preLoaded)
           => /\ lastCall.result = AlreadyBuilt
              /\ lastCall.calls = <<>>
              /\ lastCall.ret = {}

\* C29: build() refused on a model that load() made loaded and built
C29_Witness ==
    /\ lastCall.op = "build"
    /\ lastCall.preLoaded
    /\ lastCall.result = AlreadyBuilt
    /\ lastCall.calls = <<>>
    /\ loaded

\* the dict an add_* method stores in, after the call
DictAfter(op) ==
    CASE op = "add_neuron_population" -> neuron_populations'
      [] op = "add_synapse_population" -> synapse_populations'
      [] op = "add_current_source" -> current_sources'
      [] op = "add_custom_update" -> custom_updates'

\* C30: an add_* call that succeeds returns the group that the dict of its
\* kind then holds under the name; the group refers back to the model; the
\* rest of that dict, the three other dicts and the two flags are as they
\* were.
C30_RegistrationEffect ==
    [][(lastCall'.op \in AddOps /\ lastCall'.result = Ok) =>
         LET op == lastCall'.op
             n == lastCall'.name
         IN  /\ ~built
             /\ n \in DOMAIN DictAfter(op)
             /\ lastCall'.ret = {DictAfter(op)[n]}
             /\ DictAfter(op)[n].model = "self"
             /\ DictAfter(op)[n].name = n
             /\ DOMAIN DictAfter(op) = DOMAIN DictOf(op) \cup {n}
             /\ Kept(DictOf(op), DictAfter(op))
             /\ \A o \in AddOps \ {op} : DictAfter(o) = DictOf(o)
             /\ UNCHANGED flags]_vars

\* C30: add_custom_update returned the group stored as "a", which refers
\* back to the model, while the other dicts hold groups too
C30_Witness ==
    /\ lastCall.op = "add_custom_update"
    /\ lastCall.result = Ok
    /\ "a" \in DOMAIN custom_updates
    /\ lastCall.ret = {custom_updates["a"]}
    /\ custom_updates["a"].model = "self"
    /\ DOMAIN neuron_populations # {}
    /\ DOMAIN current_sources # {}

\* C31: the time precision of a constructed model is the one its constructor
\* stored, float or double, and no call on the object (registration, build,
\* load, assignment to backend_name, a device call, end) changes it.
C31_TimePrecisionFixed ==
    /\ [](constructed => _time_precision \in {"float", "double"})
    /\ [][constructed => _time_precision' = _time_precision]_vars

\* C31: a model built with precision float and time precision double, with a
\* population registered, after a successful assignment to backend_name
C31_Witness ==
    /\ constructed
    /\ scalar = "float"
    /\ _time_precision = "double"
    /\ "a" \in DOMAIN neuron_populations
    /\ lastCall.op = "backend_name"
    /\ lastCall.result = Ok
    /\ _backend_name = "opencl"

\* the names of the calls the call c made, in order
StepsOf(c) == [i \in 1..Len(c.calls) |-> c.calls[i].fn]

\* the steps of a complete build(), with the toolchain variant tc
BuildSteps(tc) ==
    <<"finalize", "Preferences", "create_backend", "generate_code", tc>>

\* C32: a build() past the built guard runs finalize, the backend creation,
\* the code generator and the toolchain in this order, up to the first step
\* that raises; when no step raises it runs them all, with exactly one of
\* the two toolchain variants as the last call, once; and the call leaves
\* the model built only when its last call was the toolchain.
C32_BuildStepOrder ==
    (lastCall.op = "build" /\ ~lastCall.preBuilt)
        => /\ \E tc \in {"make", "msbuild"} :
                  /\ Len(lastCall.calls) <= 5
                  /\ StepsOf(lastCall)
                         = SubSeq(BuildSteps(tc), 1, Len(lastCall.calls))
           /\ Cardinality(ToolchainCalls(lastCall)) <= 1
           /\ CleanBuild(lastCall)
                  => /\ Cardinality(ToolchainCalls(lastCall)) = 1
                     /\ Len(lastCall.calls) = 5
           /\ built => ToolchainCalls(lastCall) = {5}

\* the device-facing methods whose runtime primitive has the method's name
\* and takes the method's arguments
SameNameOps == DeviceOps \ {"push_extra_global_param_to_device",
                            "pull_recording_buffers_from_device"}

\* C33 as stated: every device-facing method called on a loaded model makes
\* exactly one runtime call, to the primitive of its own name.
C33_SameNamePrimitive ==
    (lastCall.op \in DeviceOps /\ lastCall.preLoaded)
        => /\ Len(lastCall.calls) = 1
           /\ lastCall.calls[1].fn = lastCall.op

\* C33: on a loaded model every device-facing method leaves the flags and
\* the four dicts unchanged; step_time, custom_update, the connectivity,
\* spike and variable pushes and pulls make exactly one runtime call, to the
\* primitive of the method's name with the caller's arguments unchanged;
\* push_extra_global_param_to_device makes its one call to
\* push_extra_global_param with the names unchanged and the size (1 when
\* none was given); pull_recording_buffers_from_device makes its one call
\* when recording is in use and none when it is not.
C33_DeviceOpsForward ==
    /\ []((lastCall.op \in SameNameOps /\ lastCall.preLoaded)
            => /\ lastCall.result = Ok
               /\ Len(lastCall.calls) = 1
               /\ lastCall.calls[1].fn = lastCall.op)
    /\ [][(loaded /\ lastCall'.op \in DeviceOps) =>
            /\ UNCHANGED <<flags, regs>>
            /\ (lastCall'.op = "step_time" /\ step_time)
                   => lastCall'.calls = <<Call("step_time", "", "", None)>>
            /\ \A n \in Names :
                   /\ (lastCall'.op = "custom_update" /\ custom_update(n))
                          => lastCall'.calls
                              = <<Call("custom_update", n, "", None)>>
                   /\ (lastCall'.op = "pull_connectivity_from_device"
                          /\ pull_connectivity_from_device(n))
                          => lastCall'.calls
                              = <<Call("pull_connectivity_from_device", n, "",
                                       None)>>
                   /\ (lastCall'.op = "push_spikes_to_device"
                          /\ push_spikes_to_device(n))
                          => lastCall'.calls
                              = <<Call("push_spikes_to_device", n, "", None)>>
                   /\ (lastCall'.op = "push_spike_events_to_device"
                          /\ push_spike_events_to_device(n))
                          => lastCall'.calls
                              = <<Call("push_spike_events_to_device", n, "",
                                       None)>>
                   /\ (lastCall'.op = "push_current_spikes_to_device"
                          /\ push_current_spikes_to_device(n))
                          => lastCall'.calls
                              = <<Call("push_current_spikes_to_device", n, "",
                                       None)>>
                   /\ (lastCall'.op = "push_current_spike_events_to_device"
                          /\ push_current_spike_events_to_device(n))
                          => lastCall'.calls
                              = <<Call("push_current_spike_events_to_device",
                                       n, "", None)>>
                   /\ (lastCall'.op = "push_connectivity_to_device"
                          /\ push_connectivity_to_device(n))
                          => lastCall'.calls
                              = <<Call("push_connectivity_to_device", n, "",
                                       None)>>
                   /\ \A v \in VarNames :
                          (lastCall'.op = "push_var_to_device"
                             /\ push_var_to_device(n, v))
                              => lastCall'.calls
                                  = <<Call("push_var_to_device", n, v, None)>>
                   /\ \A e \in EgpNames, z \in Sizes :
                          (lastCall'.op = "push_extra_global_param_to_device"
                             /\ push_extra_global_param_to_device(n, e, z))
                              => lastCall'.calls
                                  = <<Call("push_extra_global_param", n, e,
                                           IF z = None THEN 1 ELSE z)>>
            /\ (lastCall'.op = "pull_recording_buffers_from_device"
                   /\ pull_recording_buffers_from_device)
                   => lastCall'.calls
                       = IF recording_in_use
                         THEN <<Call("pull_recording_buffers_from_device",
                                     "", "", None)>>
                         ELSE <<>>]_vars

\* C33: push_var_to_device on a loaded model that holds the population b
C33_Witness ==
    /\ loaded
    /\ "b" \in DOMAIN neuron_populations
    /\ lastCall.op = "push_var_to_device"
    /\ lastCall.preLoaded
    /\ lastCall.result = Ok
    /\ lastCall.calls = <<Call("push_var_to_device", "b", "V", None)>>

\* the helper call c returned an instance of the class named class_name
ReturnsInstance(c) ==
    /\ c.result = Ok
    /\ \E i \in c.ret : c.ret = {i} /\ i.class = c.name

\* C34: create_custom_current_source_class and
\* create_custom_custom_update_class return an instance of the new class,
\* without raising, for every combination of their optional arguments;
\* create_custom_neuron_class does so for a custom_body that is a dict or
\* None and raises ValueError for any other custom_body.
C34_CustomClassHelpersReturn ==
    /\ lastCall.op \in {"create_custom_current_source_class",
                        "create_custom_custom_update_class"}
           => ReturnsInstance(lastCall)
    /\ lastCall.op = "create_custom_neuron_class"
           => IF lastCall.custom_body \in {Unset, "dict"}
              THEN ReturnsInstance(lastCall)
              ELSE lastCall.result.type = "ValueError"

\* C35: in every state the loaded flag is true only if the built flag is,
\* whatever calls came before, and so it was when the last call began.
C35_LoadedImpliesBuilt ==
    /\ ~(loaded /\ ~built)
    /\ ~(lastCall.preLoaded /\ ~lastCall.preBuilt)

\* C35: a loaded and built model after a call that raised: end() on a model
\* that load() made loaded
C35_Witness ==
    /\ loaded
    /\ built
    /\ lastCall.op = "end"
    /\ lastCall.result.type # "ok"
    /\ lastCall.preLoaded
    /\ lastCall.preBuilt

\* C36: no call takes a flag back to false: a flag that was true when the
\* last call began (a call that returned or one that raised, end()
\* included) is true after it.
C36_FlagsMonotonic ==
    /\ lastCall.preBuilt => built
    /\ lastCall.preLoaded => loaded

\* C36: a second load(), refused, on a model that stays loaded and built
C36_Witness ==
    /\ lastCall.op = "load"
    /\ lastCall.result = AlreadyLoaded
    /\ lastCall.preBuilt
    /\ lastCall.preLoaded
    /\ built
    /\ loaded

\* the call c made a runtime call to fn
Made(c, fn) == \E i \in 1..Len(c.calls) : c.calls[i].fn = fn

\* C37: over the load() calls on one model the compiled artifact is opened
\* at most once and device memory is allocated at most once: a load() on a
\* model whose artifact the runtime has opened does not open it again, and a
\* load() that follows a load() that allocated and then raised does not
\* allocate again.
C37_OpenedAndAllocatedOnce ==
    [][lastCall'.op = "load" =>
         /\ opened => ~Made(lastCall', "open")
         /\ (lastCall.op = "load" /\ Made(lastCall, "allocate_mem")
               /\ lastCall.result # Raise("ExternalError", "allocate_mem"))
                => ~Made(lastCall', "allocate_mem")]_vars

\* C38: on a constructed model the stored backend module is the module the
\* import loop registered under the stored backend name, and an assignment
\* to backend_name that raises leaves the name and the module as they were.
C38_ModuleMatchesName ==
    /\ [](constructed
            => /\ _backend_name \in Keys(backend_modules)
               /\ _backend_module = Module(_backend_name))
    /\ [][(lastCall'.op = "backend_name" /\ lastCall'.result.type # "ok")
            => UNCHANGED <<_backend_name, _backend_module>>]_vars

\* C39: a device-facing call on a model that is not loaded does nothing but
\* raise: it makes no call into the runtime, emits no warning, and leaves
\* the flags, the four dicts and the timestep as they were;
\* push_extra_global_param_to_device called without a size included.
C39_RejectedCallHasNoEffect ==
    /\ []((lastCall.op \in DeviceOps /\ ~lastCall.preLoaded)
            => /\ lastCall.result.type = "Exception"
               /\ lastCall.calls = <<>>
               /\ lastCall.warned = 0)
    /\ [][(lastCall'.op \in DeviceOps /\ ~loaded)
            => UNCHANGED <<flags, regs, timestep>>]_vars

\* C40: end() leaves the two flags and the four dicts as they were, on a
\* model that is loaded and on one that is not, and refuses no state: it
\* never raises a lifecycle exception.  The device-facing call that follows
\* end() on a loaded model is not refused as "not loaded", and step_time,
\* custom_update and the pushes and pulls of connectivity, spikes and
\* variables succeed.
C40_EndChangesNothing ==
    [][/\ lastCall'.op = "end"
            => /\ UNCHANGED <<flags, regs>>
               /\ lastCall'.result.type # "Exception"
       /\ (lastCall.op = "end" /\ loaded /\ lastCall'.op \in DeviceOps)
            => /\ lastCall'.result.msg \notin NotLoadedMsgs
               /\ lastCall'.op \in SameNameOps
                      => /\ lastCall'.result = Ok
                         /\ Len(lastCall'.calls) = 1]_vars

\* C40: end() called on a loaded model that holds a neuron and a synapse
\* population and has made a step
C40_Witness ==
    /\ lastCall.op = "end"
    /\ lastCall.preLoaded
    /\ loaded
    /\ built
    /\ timestep > 0
    /\ DOMAIN neuron_populations # {}
    /\ DOMAIN synapse_populations # {}

====
